---- MODULE Spec2Model ----
(***************************************************************************)
(* Model of the BookNLP output-contract builder of scripts/booknlp_runner.py *)
(* (parse_tsv_file, build_token_index, build_characters_and_mentions,       *)
(* build_coref_chains, build_quotes, build_contract).                       *)
(*                                                                          *)
(* Representation.  A Python str read from a file, a file name and a       *)
(* column name are sequences of characters (<<"-","1">> is "-1", <<>> is    *)
(* ""), so that int(), strip() and split() are modelled by what they do to  *)
(* the characters.  A character is a string: the character itself for the   *)
(* printable ASCII characters, "\t", "\n", "\f", "\r" for tab, line feed,   *)
(* form feed and carriage return, and "U+" followed by the code point in    *)
(* upper-case hexadecimal (four digits or more) for every other character:  *)
(* "U+00A0" is the no-break space, "U+0663" is ARABIC-INDIC DIGIT THREE,     *)
(* "U+000B" the vertical tab.  The generated ids ("char_5", "mention_0")     *)
(* are TLA+ strings.  A Python list is a sequence; list position k          *)
(* (0-based) is element k+1.  A Python dict is a sequence of records [k, v]  *)
(* in insertion order.  None is the model string None.  An operation that    *)
(* can raise returns a record whose exc field names the exception class      *)
(* ("None" when it returned normally).                                       *)
(***************************************************************************)
EXTENDS Integers, Sequences, FiniteSets, TLC

None == "None"

NoExc == "None"
ValueError == "ValueError"
KeyError == "KeyError"
IndexError == "IndexError"
UnicodeDecodeError == "UnicodeDecodeError"
IsADirectoryError == "IsADirectoryError"
UnicodeEncodeError == "UnicodeEncodeError"

(***************************************************************************)
(* Python built-ins used by the builder                                    *)
(***************************************************************************)

\* bool(s) of a str: the empty string is falsy
Truthy(s) == Len(s) > 0

\* the characters int() strips from both ends of a str
IntWhitespace ==
   {
    "\t", "\n", "U+000B", "\f", "\r", " ", "U+0085", "U+00A0", "U+1680",
    "U+2000", "U+2001", "U+2002", "U+2003", "U+2004", "U+2005", "U+2006",
    "U+2007", "U+2008", "U+2009", "U+200A", "U+2028", "U+2029", "U+202F",
    "U+205F", "U+3000"}

\* the characters str.strip() strips: those of int() and the four
\* information separators
Whitespace ==
    IntWhitespace \cup {"U+001C", "U+001D", "U+001E", "U+001F"}

AsciiDigits == {"0", "1", "2", "3", "4", "5", "6", "7", "8", "9"}

\* the decimal digits of the other scripts (Unicode category Nd), each row
\* the digits zero to nine of one script
DigitRuns ==
    <<
      <<"U+0660", "U+0661", "U+0662", "U+0663", "U+0664", "U+0665", "U+0666", "U+0667", "U+0668", "U+0669">>,
      <<"U+06F0", "U+06F1", "U+06F2", "U+06F3", "U+06F4", "U+06F5", "U+06F6", "U+06F7", "U+06F8", "U+06F9">>,
      <<"U+07C0", "U+07C1", "U+07C2", "U+07C3", "U+07C4", "U+07C5", "U+07C6", "U+07C7", "U+07C8", "U+07C9">>,
      <<"U+0966", "U+0967", "U+0968", "U+0969", "U+096A", "U+096B", "U+096C", "U+096D", "U+096E", "U+096F">>,
      <<"U+09E6", "U+09E7", "U+09E8", "U+09E9", "U+09EA", "U+09EB", "U+09EC", "U+09ED", "U+09EE", "U+09EF">>,
      <<"U+0A66", "U+0A67", "U+0A68", "U+0A69", "U+0A6A", "U+0A6B", "U+0A6C", "U+0A6D", "U+0A6E", "U+0A6F">>,
      <<"U+0AE6", "U+0AE7", "U+0AE8", "U+0AE9", "U+0AEA", "U+0AEB", "U+0AEC", "U+0AED", "U+0AEE", "U+0AEF">>,
      <<"U+0B66", "U+0B67", "U+0B68", "U+0B69", "U+0B6A", "U+0B6B", "U+0B6C", "U+0B6D", "U+0B6E", "U+0B6F">>,
      <<"U+0BE6", "U+0BE7", "U+0BE8", "U+0BE9", "U+0BEA", "U+0BEB", "U+0BEC", "U+0BED", "U+0BEE", "U+0BEF">>,
      <<"U+0C66", "U+0C67", "U+0C68", "U+0C69", "U+0C6A", "U+0C6B", "U+0C6C", "U+0C6D", "U+0C6E", "U+0C6F">>,
      <<"U+0CE6", "U+0CE7", "U+0CE8", "U+0CE9", "U+0CEA", "U+0CEB", "U+0CEC", "U+0CED", "U+0CEE", "U+0CEF">>,
      <<"U+0D66", "U+0D67", "U+0D68", "U+0D69", "U+0D6A", "U+0D6B", "U+0D6C", "U+0D6D", "U+0D6E", "U+0D6F">>,
      <<"U+0DE6", "U+0DE7", "U+0DE8", "U+0DE9", "U+0DEA", "U+0DEB", "U+0DEC", "U+0DED", "U+0DEE", "U+0DEF">>,
      <<"U+0E50", "U+0E51", "U+0E52", "U+0E53", "U+0E54", "U+0E55", "U+0E56", "U+0E57", "U+0E58", "U+0E59">>,
      <<"U+0ED0", "U+0ED1", "U+0ED2", "U+0ED3", "U+0ED4", "U+0ED5", "U+0ED6", "U+0ED7", "U+0ED8", "U+0ED9">>,
      <<"U+0F20", "U+0F21", "U+0F22", "U+0F23", "U+0F24", "U+0F25", "U+0F26", "U+0F27", "U+0F28", "U+0F29">>,
      <<"U+1040", "U+1041", "U+1042", "U+1043", "U+1044", "U+1045", "U+1046", "U+1047", "U+1048", "U+1049">>,
      <<"U+1090", "U+1091", "U+1092", "U+1093", "U+1094", "U+1095", "U+1096", "U+1097", "U+1098", "U+1099">>,
      <<"U+17E0", "U+17E1", "U+17E2", "U+17E3", "U+17E4", "U+17E5", "U+17E6", "U+17E7", "U+17E8", "U+17E9">>,
      <<"U+1810", "U+1811", "U+1812", "U+1813", "U+1814", "U+1815", "U+1816", "U+1817", "U+1818", "U+1819">>,
      <<"U+1946", "U+1947", "U+1948", "U+1949", "U+194A", "U+194B", "U+194C", "U+194D", "U+194E", "U+194F">>,
      <<"U+19D0", "U+19D1", "U+19D2", "U+19D3", "U+19D4", "U+19D5", "U+19D6", "U+19D7", "U+19D8", "U+19D9">>,
      <<"U+1A80", "U+1A81", "U+1A82", "U+1A83", "U+1A84", "U+1A85", "U+1A86", "U+1A87", "U+1A88", "U+1A89">>,
      <<"U+1A90", "U+1A91", "U+1A92", "U+1A93", "U+1A94", "U+1A95", "U+1A96", "U+1A97", "U+1A98", "U+1A99">>,
      <<"U+1B50", "U+1B51", "U+1B52", "U+1B53", "U+1B54", "U+1B55", "U+1B56", "U+1B57", "U+1B58", "U+1B59">>,
      <<"U+1BB0", "U+1BB1", "U+1BB2", "U+1BB3", "U+1BB4", "U+1BB5", "U+1BB6", "U+1BB7", "U+1BB8", "U+1BB9">>,
      <<"U+1C40", "U+1C41", "U+1C42", "U+1C43", "U+1C44", "U+1C45", "U+1C46", "U+1C47", "U+1C48", "U+1C49">>,
      <<"U+1C50", "U+1C51", "U+1C52", "U+1C53", "U+1C54", "U+1C55", "U+1C56", "U+1C57", "U+1C58", "U+1C59">>,
      <<"U+A620", "U+A621", "U+A622", "U+A623", "U+A624", "U+A625", "U+A626", "U+A627", "U+A628", "U+A629">>,
      <<"U+A8D0", "U+A8D1", "U+A8D2", "U+A8D3", "U+A8D4", "U+A8D5", "U+A8D6", "U+A8D7", "U+A8D8", "U+A8D9">>,
      <<"U+A900", "U+A901", "U+A902", "U+A903", "U+A904", "U+A905", "U+A906", "U+A907", "U+A908", "U+A909">>,
      <<"U+A9D0", "U+A9D1", "U+A9D2", "U+A9D3", "U+A9D4", "U+A9D5", "U+A9D6", "U+A9D7", "U+A9D8", "U+A9D9">>,
      <<"U+A9F0", "U+A9F1", "U+A9F2", "U+A9F3", "U+A9F4", "U+A9F5", "U+A9F6", "U+A9F7", "U+A9F8", "U+A9F9">>,
      <<"U+AA50", "U+AA51", "U+AA52", "U+AA53", "U+AA54", "U+AA55", "U+AA56", "U+AA57", "U+AA58", "U+AA59">>,
      <<"U+ABF0", "U+ABF1", "U+ABF2", "U+ABF3", "U+ABF4", "U+ABF5", "U+ABF6", "U+ABF7", "U+ABF8", "U+ABF9">>,
      <<"U+FF10", "U+FF11", "U+FF12", "U+FF13", "U+FF14", "U+FF15", "U+FF16", "U+FF17", "U+FF18", "U+FF19">>,
      <<"U+104A0", "U+104A1", "U+104A2", "U+104A3", "U+104A4", "U+104A5", "U+104A6", "U+104A7", "U+104A8", "U+104A9">>,
      <<"U+10D30", "U+10D31", "U+10D32", "U+10D33", "U+10D34", "U+10D35", "U+10D36", "U+10D37", "U+10D38", "U+10D39">>,
      <<"U+11066", "U+11067", "U+11068", "U+11069", "U+1106A", "U+1106B", "U+1106C", "U+1106D", "U+1106E", "U+1106F">>,
      <<"U+110F0", "U+110F1", "U+110F2", "U+110F3", "U+110F4", "U+110F5", "U+110F6", "U+110F7", "U+110F8", "U+110F9">>,
      <<"U+11136", "U+11137", "U+11138", "U+11139", "U+1113A", "U+1113B", "U+1113C", "U+1113D", "U+1113E", "U+1113F">>,
      <<"U+111D0", "U+111D1", "U+111D2", "U+111D3", "U+111D4", "U+111D5", "U+111D6", "U+111D7", "U+111D8", "U+111D9">>,
      <<"U+112F0", "U+112F1", "U+112F2", "U+112F3", "U+112F4", "U+112F5", "U+112F6", "U+112F7", "U+112F8", "U+112F9">>,
      <<"U+11450", "U+11451", "U+11452", "U+11453", "U+11454", "U+11455", "U+11456", "U+11457", "U+11458", "U+11459">>,
      <<"U+114D0", "U+114D1", "U+114D2", "U+114D3", "U+114D4", "U+114D5", "U+114D6", "U+114D7", "U+114D8", "U+114D9">>,
      <<"U+11650", "U+11651", "U+11652", "U+11653", "U+11654", "U+11655", "U+11656", "U+11657", "U+11658", "U+11659">>,
      <<"U+116C0", "U+116C1", "U+116C2", "U+116C3", "U+116C4", "U+116C5", "U+116C6", "U+116C7", "U+116C8", "U+116C9">>,
      <<"U+11730", "U+11731", "U+11732", "U+11733", "U+11734", "U+11735", "U+11736", "U+11737", "U+11738", "U+11739">>,
      <<"U+118E0", "U+118E1", "U+118E2", "U+118E3", "U+118E4", "U+118E5", "U+118E6", "U+118E7", "U+118E8", "U+118E9">>,
      <<"U+11950", "U+11951", "U+11952", "U+11953", "U+11954", "U+11955", "U+11956", "U+11957", "U+11958", "U+11959">>,
      <<"U+11C50", "U+11C51", "U+11C52", "U+11C53", "U+11C54", "U+11C55", "U+11C56", "U+11C57", "U+11C58", "U+11C59">>,
      <<"U+11D50", "U+11D51", "U+11D52", "U+11D53", "U+11D54", "U+11D55", "U+11D56", "U+11D57", "U+11D58", "U+11D59">>,
      <<"U+11DA0", "U+11DA1", "U+11DA2", "U+11DA3", "U+11DA4", "U+11DA5", "U+11DA6", "U+11DA7", "U+11DA8", "U+11DA9">>,
      <<"U+16A60", "U+16A61", "U+16A62", "U+16A63", "U+16A64", "U+16A65", "U+16A66", "U+16A67", "U+16A68", "U+16A69">>,
      <<"U+16AC0", "U+16AC1", "U+16AC2", "U+16AC3", "U+16AC4", "U+16AC5", "U+16AC6", "U+16AC7", "U+16AC8", "U+16AC9">>,
      <<"U+16B50", "U+16B51", "U+16B52", "U+16B53", "U+16B54", "U+16B55", "U+16B56", "U+16B57", "U+16B58", "U+16B59">>,
      <<"U+1D7CE", "U+1D7CF", "U+1D7D0", "U+1D7D1", "U+1D7D2", "U+1D7D3", "U+1D7D4", "U+1D7D5", "U+1D7D6", "U+1D7D7">>,
      <<"U+1D7D8", "U+1D7D9", "U+1D7DA", "U+1D7DB", "U+1D7DC", "U+1D7DD", "U+1D7DE", "U+1D7DF", "U+1D7E0", "U+1D7E1">>,
      <<"U+1D7E2", "U+1D7E3", "U+1D7E4", "U+1D7E5", "U+1D7E6", "U+1D7E7", "U+1D7E8", "U+1D7E9", "U+1D7EA", "U+1D7EB">>,
      <<"U+1D7EC", "U+1D7ED", "U+1D7EE", "U+1D7EF", "U+1D7F0", "U+1D7F1", "U+1D7F2", "U+1D7F3", "U+1D7F4", "U+1D7F5">>,
      <<"U+1D7F6", "U+1D7F7", "U+1D7F8", "U+1D7F9", "U+1D7FA", "U+1D7FB", "U+1D7FC", "U+1D7FD", "U+1D7FE", "U+1D7FF">>,
      <<"U+1E140", "U+1E141", "U+1E142", "U+1E143", "U+1E144", "U+1E145", "U+1E146", "U+1E147", "U+1E148", "U+1E149">>,
      <<"U+1E2F0", "U+1E2F1", "U+1E2F2", "U+1E2F3", "U+1E2F4", "U+1E2F5", "U+1E2F6", "U+1E2F7", "U+1E2F8", "U+1E2F9">>,
      <<"U+1E950", "U+1E951", "U+1E952", "U+1E953", "U+1E954", "U+1E955", "U+1E956", "U+1E957", "U+1E958", "U+1E959">>,
      <<"U+1FBF0", "U+1FBF1", "U+1FBF2", "U+1FBF3", "U+1FBF4", "U+1FBF5", "U+1FBF6", "U+1FBF7", "U+1FBF8", "U+1FBF9">>
    >>

\* the characters int() takes as decimal digits
DigitChars ==
    AsciiDigits \cup UNION {{DigitRuns[r][k] : k \in 1..10} : r \in 1..Len(DigitRuns)}

DigitVal(c) ==
    CASE c = "0" -> 0 [] c = "1" -> 1 [] c = "2" -> 2 [] c = "3" -> 3
      [] c = "4" -> 4 [] c = "5" -> 5 [] c = "6" -> 6 [] c = "7" -> 7
      [] c = "8" -> 8 [] c = "9" -> 9
      [] OTHER -> (CHOOSE k \in 1..10 : \E r \in 1..Len(DigitRuns) : DigitRuns[r][k] = c) - 1

\* s without its leading (trailing) characters that are in chars
RECURSIVE LStrip(_, _)
LStrip(s, chars) == IF Len(s) > 0 /\ s[1] \in chars THEN LStrip(Tail(s), chars) ELSE s

RECURSIVE RStrip(_, _)
RStrip(s, chars) ==
    IF Len(s) > 0 /\ s[Len(s)] \in chars
    THEN RStrip(SubSeq(s, 1, Len(s) - 1), chars)
    ELSE s

Strip(s, chars) == RStrip(LStrip(s, chars), chars)

\* sys.get_int_max_str_digits(): the interpreter's default, which the
\* program never changes; int() raises ValueError for a decimal literal of
\* more digits
IntMaxStrDigits == 4300

\* the number of digits of a digit part, its underscores not counted
DigitCount(s) == Cardinality({k \in 1..Len(s) : s[k] # "_"})

\* the digit part of an int literal: digits, single underscores between
\* digits, and no more than IntMaxStrDigits digits (leading zeros counted)
DigitsOk(s) ==
    /\ Len(s) > 0
    /\ s[1] \in DigitChars
    /\ s[Len(s)] \in DigitChars
    /\ \A k \in 1..Len(s) : s[k] \in DigitChars \cup {"_"}
    /\ \A k \in 1..(Len(s) - 1) : ~(s[k] = "_" /\ s[k + 1] = "_")
    /\ DigitCount(s) <= IntMaxStrDigits

RECURSIVE DigitsValue(_, _)
DigitsValue(s, acc) ==
    IF Len(s) = 0 THEN acc
    ELSE IF s[1] = "_" THEN DigitsValue(Tail(s), acc)
    ELSE DigitsValue(Tail(s), 10 * acc + DigitVal(s[1]))

\* the value of a digit part: that of its digits from the first that is
\* not a zero, 0 when it has none
ValueOfDigits(s) ==
    IF \A k \in 1..Len(s) : s[k] = "_" \/ DigitVal(s[k]) = 0 THEN 0
    ELSE DigitsValue(SubSeq(s, CHOOSE k \in 1..Len(s) :
                                  /\ s[k] # "_" /\ DigitVal(s[k]) # 0
                                  /\ \A j \in 1..(k - 1) : s[j] = "_" \/ DigitVal(s[j]) = 0,
                               Len(s)), 0)

\* the value of an int literal without its sign, negated when asked
IntLiteral(negative, body) ==
    IF DigitsOk(body)
    THEN [exc |-> NoExc,
          val |-> IF negative THEN 0 - ValueOfDigits(body) ELSE ValueOfDigits(body)]
    ELSE [exc |-> ValueError, val |-> 0]

IntOfStripped(t) ==
    IF Len(t) > 0 /\ t[1] \in {"+", "-"}
    THEN IntLiteral(t[1] = "-", Tail(t))
    ELSE IntLiteral(FALSE, t)

\* int(s) for a str s: surrounding whitespace stripped, optional sign,
\* at most IntMaxStrDigits decimal digits of any script; anything else
\* raises ValueError
ParseInt(s) == IntOfStripped(Strip(s, IntWhitespace))

HexDigits ==
    {"0", "1", "2", "3", "4", "5", "6", "7", "8", "9", "A", "B", "C", "D", "E", "F"}

\* the surrogate code points U+D800 .. U+DFFF, which UTF-8 cannot encode
Surrogates ==
    {"U+D" \o a \o b \o c :
        a \in {"8", "9", "A", "B", "C", "D", "E", "F"}, b \in HexDigits, c \in HexDigits}

\* whether s.encode("utf-8") returns; it raises UnicodeEncodeError for a
\* str that holds a surrogate
Encodes(s) == \A i \in 1..Len(s) : s[i] \notin Surrogates

\* list[k] with Python's index rules: 0 <= k < len is position k, -len <= k < 0
\* counts from the end, anything else raises IndexError
PyIndex(list, k) ==
    IF k >= 0 /\ k < Len(list) THEN [exc |-> NoExc, val |-> list[k + 1]]
    ELSE IF k < 0 /\ k >= 0 - Len(list) THEN [exc |-> NoExc, val |-> list[Len(list) + k + 1]]
    ELSE [exc |-> IndexError, val |-> None]

\* the bound of a slice: negative counts from the end, then clipped to [0, len]
SliceBound(n, k) ==
    LET a == IF k < 0 THEN n + k ELSE k
    IN  IF a < 0 THEN 0 ELSE IF a > n THEN n ELSE a

\* list[a:b]
PySlice(list, a, b) ==
    LET lo == SliceBound(Len(list), a)
        hi == SliceBound(Len(list), b)
    IN  IF lo >= hi THEN <<>> ELSE SubSeq(list, lo + 1, hi)

\* sep.join(parts)
RECURSIVE Join(_, _)
Join(sep, parts) ==
    IF Len(parts) = 0 THEN <<>>
    ELSE IF Len(parts) = 1 THEN parts[1]
    ELSE parts[1] \o sep \o Join(sep, Tail(parts))

\* dict: k in d, d[k], d.get(k, default), d[k] = v (an existing key keeps its place)
DictHas(d, k) == \E j \in 1..Len(d) : d[j].k = k

DictGet(d, k, default) ==
    IF DictHas(d, k)
    THEN d[CHOOSE j \in 1..Len(d) : d[j].k = k].v
    ELSE default

DictPut(d, k, v) ==
    IF DictHas(d, k)
    THEN [j \in 1..Len(d) |-> IF d[j].k = k THEN [k |-> k, v |-> v] ELSE d[j]]
    ELSE Append(d, [k |-> k, v |-> v])

\* the first position of sep in s at or after from, Len(s) + 1 if there is none
Find(s, sep, from) ==
    IF \E i \in from..Len(s) : s[i] = sep
    THEN CHOOSE i \in from..Len(s) : s[i] = sep /\ \A k \in from..(i - 1) : s[k] # sep
    ELSE Len(s) + 1

\* the parts of s from position from on, the first of which ends before to
RECURSIVE SplitFrom(_, _, _, _)
SplitFrom(s, sep, from, to) ==
    IF to > Len(s) THEN <<SubSeq(s, from, Len(s))>>
    ELSE <<SubSeq(s, from, to - 1)>> \o SplitFrom(s, sep, to + 1, Find(s, sep, to + 1))

\* s.split(sep) for a one-character sep
Split(s, sep) == SplitFrom(s, sep, 1, Find(s, sep, 1))

\* row.get(col, default) for a row of parse_tsv_file (a function on the header names)
Get(row, col, default) == IF col \in DOMAIN row THEN row[col] ELSE default

(***************************************************************************)
(* parse_tsv_file                                                          *)
(***************************************************************************)

\* A path is [kind, utf8, text].  kind is "file" for a regular file,
\* "directory" for a directory, "link" for a symbolic link whose target is
\* missing and "absent" when the directory has no such name; utf8 says
\* whether the bytes of a regular file decode as UTF-8 and text is what
\* they decode to.
Exists(path) == path.kind \in {"file", "directory"}

\* the positions of text that universal newlines keep: not the "\n" of "\r\n"
KeptByNewlines(text) ==
    SelectSeq([i \in 1..Len(text) |-> i],
              LAMBDA i : ~(text[i] = "\n" /\ i > 1 /\ text[i - 1] = "\r"))

TranslateNewlines(text, kept) ==
    [j \in 1..Len(kept) |-> IF text[kept[j]] = "\r" THEN "\n" ELSE text[kept[j]]]

\* what read_text gives for the decoded text: "\r\n" and "\r" become "\n"
ReadText(text) ==
    IF \A i \in 1..Len(text) : text[i] # "\r" THEN text
    ELSE TranslateNewlines(text, KeptByNewlines(text))

\* A row maps every header name to the field at its position ("" when the
\* line is short; the last of two equal header names wins).
RowOf(headers, parts) ==
    [h \in {headers[j] : j \in 1..Len(headers)} |->
        LET j == CHOOSE j \in 1..Len(headers) :
                    /\ headers[j] = h
                    /\ \A j2 \in 1..Len(headers) : headers[j2] = h => j2 <= j
        IN  IF j <= Len(parts) THEN parts[j] ELSE <<>>]

\* the rows of the lines of a file, the first being the header line
RowsOfLines(lines) ==
    [r \in 1..(Len(lines) - 1) |->
        RowOf(Split(lines[1], "\t"), Split(lines[r + 1], "\t"))]

\* [exc, rows]: the rows, or the exception read_text raised
parse_tsv_file(path) ==
    IF ~Exists(path) THEN [exc |-> NoExc, rows |-> <<>>]
    ELSE IF path.kind = "directory" THEN [exc |-> IsADirectoryError, rows |-> <<>>]
    ELSE IF ~path.utf8 THEN [exc |-> UnicodeDecodeError, rows |-> <<>>]
    ELSE [exc |-> NoExc,
          rows |-> RowsOfLines(Split(Strip(ReadText(path.text), Whitespace), "\n"))]

(***************************************************************************)
(* build_token_index                                                       *)
(***************************************************************************)

\* the first exception raised by a sequence of evaluations, in their order
RECURSIVE FirstExc(_)
FirstExc(results) ==
    IF Len(results) = 0 THEN NoExc
    ELSE IF results[1].exc # NoExc THEN results[1].exc
    ELSE FirstExc(Tail(results))

TokenCaught == {ValueError, KeyError}

\* TokenOfParsed numbering the tokens from 1
TokenOfParsedOneBased(tokens, row, byte_start, byte_end, sentence, paragraph) ==
    [exc |-> FirstExc(<<byte_start, byte_end, sentence, paragraph>>),
     val |-> [idx |-> Len(tokens) + 1,
              text |-> Get(row, <<"w", "o", "r", "d">>, <<>>),
              lemma |-> Get(row, <<"l", "e", "m", "m", "a">>, Get(row, <<"w", "o", "r", "d">>, <<>>)),
              pos |-> Get(row, <<"P", "O", "S", "_", "t", "a", "g">>, Get(row, <<"p", "o", "s">>, <<>>)),
              ner |-> Get(row, <<"N", "E", "R", "_", "t", "a", "g">>, Get(row, <<"n", "e", "r">>, <<"O">>)),
              start_char |-> byte_start.val,
              end_char |-> byte_end.val,
              sentence_idx |-> sentence.val,
              paragraph_idx |-> paragraph.val]]

\* the Token of a row whose numeric fields were given to int(), or the
\* first exception they raised
TokenOfParsed(tokens, row, byte_start, byte_end, sentence, paragraph) ==
    [exc |-> FirstExc(<<byte_start, byte_end, sentence, paragraph>>),
     val |-> [idx |-> Len(tokens),
              text |-> Get(row, <<"w", "o", "r", "d">>, <<>>),
              lemma |-> Get(row, <<"l", "e", "m", "m", "a">>, Get(row, <<"w", "o", "r", "d">>, <<>>)),
              pos |-> Get(row, <<"P", "O", "S", "_", "t", "a", "g">>, Get(row, <<"p", "o", "s">>, <<>>)),
              ner |-> Get(row, <<"N", "E", "R", "_", "t", "a", "g">>, Get(row, <<"n", "e", "r">>, <<"O">>)),
              start_char |-> byte_start.val,
              end_char |-> byte_end.val,
              sentence_idx |-> sentence.val,
              paragraph_idx |-> paragraph.val]]

\* the body of the try block for one token row: the Token to append, or the
\* exception raised before the append
TokenOfRow(tokens, row) ==
    TokenOfParsed(tokens, row,
                  ParseInt(Get(row, <<"b", "y", "t", "e", "_", "o", "n", "s", "e", "t">>, <<"0">>)),
                  ParseInt(Get(row, <<"b", "y", "t", "e", "_", "o", "f", "f", "s", "e", "t">>, <<"0">>)),
                  ParseInt(Get(row, <<"s", "e", "n", "t", "e", "n", "c", "e", "_", "i", "d">>, <<"0">>)),
                  ParseInt(Get(row, <<"p", "a", "r", "a", "g", "r", "a", "p", "h", "_", "i", "d">>, <<"0">>)))

\* the loop state [exc, tokens] after a try block that ended as r
TokenApply(st, r) ==
    IF st.exc # NoExc THEN st
    ELSE IF r.exc = NoExc THEN [st EXCEPT !.tokens = Append(@, r.val)]
    ELSE IF r.exc \in TokenCaught THEN st
    ELSE [st EXCEPT !.exc = r.exc]

\* one iteration of the row loop on the loop state [exc, tokens]
TokenRowStep(st, row) == TokenApply(st, TokenOfRow(st.tokens, row))

RECURSIVE TokenLoop(_, _)
TokenLoop(st, rows) ==
    IF Len(rows) = 0 THEN st
    ELSE TokenLoop(TokenRowStep(st, rows[1]), Tail(rows))

\* the row loop on the result [exc, rows] of parse_tsv_file, whose
\* exception is not caught
TokensOfParsed(parsed) ==
    IF parsed.exc # NoExc THEN [exc |-> parsed.exc, tokens |-> <<>>]
    ELSE TokenLoop([exc |-> NoExc, tokens |-> <<>>], parsed.rows)

\* [exc, tokens]: the returned Token list, or the exception that escaped
build_token_index(tokens_file) == TokensOfParsed(parse_tsv_file(tokens_file))

(***************************************************************************)
(* build_characters_and_mentions                                           *)
(***************************************************************************)

\* f"char_{cluster_id}", f"mention_{i}"
CharId(cluster_id) == "char_" \o ToString(cluster_id)
MentionId(i) == "mention_" \o ToString(i)

EntityCaught == {ValueError, KeyError, IndexError}

\* tokens[tok][field] if tok < len(tokens) else 0
TokenField(tokens, tok, field) ==
    IF tok < Len(tokens)
    THEN [exc |-> PyIndex(tokens, tok).exc,
          val |-> IF PyIndex(tokens, tok).exc = NoExc THEN PyIndex(tokens, tok).val[field] ELSE 0]
    ELSE [exc |-> NoExc, val |-> 0]

\* the Mention and cluster member of entity row i, whose numeric fields
\* were given to int(), or the first exception raised
EntityOfParsed(i, row, tokens, coref_id, start_tok, end_tok) ==
    [exc |-> IF FirstExc(<<coref_id, start_tok, end_tok>>) # NoExc
             THEN FirstExc(<<coref_id, start_tok, end_tok>>)
             ELSE FirstExc(<<TokenField(tokens, start_tok.val, "start_char"),
                             TokenField(tokens, end_tok.val, "end_char")>>),
     coref_id |-> coref_id.val,
     mention |-> [id |-> MentionId(i),
                  character_id |-> IF coref_id.val >= 0 THEN CharId(coref_id.val) ELSE None,
                  text |-> Get(row, <<"t", "e", "x", "t">>, <<>>),
                  start_token |-> start_tok.val,
                  end_token |-> end_tok.val,
                  start_char |-> TokenField(tokens, start_tok.val, "start_char").val,
                  end_char |-> TokenField(tokens, end_tok.val, "end_char").val,
                  sentence_idx |-> TokenField(tokens, start_tok.val, "sentence_idx").val,
                  mention_type |-> Get(row, <<"m", "e", "n", "t", "i", "o", "n", "_", "t", "y", "p", "e">>, Get(row, <<"c", "a", "t">>, <<"P", "R", "O", "P">>)),
                  entity_type |-> Get(row, <<"e", "n", "t", "i", "t", "y", "_", "t", "y", "p", "e">>, Get(row, <<"n", "e", "r">>, <<"P", "E", "R">>))],
     member |-> [text |-> Get(row, <<"t", "e", "x", "t">>, <<>>),
                 type |-> Get(row, <<"m", "e", "n", "t", "i", "o", "n", "_", "t", "y", "p", "e">>, Get(row, <<"c", "a", "t">>, <<"P", "R", "O", "P">>)),
                 canonical |-> Get(row, <<"n", "a", "m", "e">>, Get(row, <<"t", "e", "x", "t">>, <<>>))]]

\* the evaluations of the try block for entity row i up to the first
\* statement that changes the loop state: the parsed fields, or the exception
EntityOfRow(i, row, tokens) ==
    EntityOfParsed(i, row, tokens,
                   ParseInt(Get(row, <<"C", "O", "R", "E", "F">>, <<"-", "1">>)),
                   ParseInt(Get(row, <<"s", "t", "a", "r", "t", "_", "t", "o", "k", "e", "n">>, <<"0">>)),
                   ParseInt(Get(row, <<"e", "n", "d", "_", "t", "o", "k", "e", "n">>, <<"0">>)))

\* EntityApply grouping a row into cluster_mentions only when coref_id > 0
EntityApplySkipZero(st, r) ==
    IF st.exc # NoExc THEN st
    ELSE IF r.exc = NoExc
    THEN [st EXCEPT
            !.cluster_to_char_id =
                IF r.coref_id >= 0 THEN DictPut(@, r.coref_id, CharId(r.coref_id)) ELSE @,
            !.mentions = Append(@, r.mention),
            !.cluster_mentions =
                IF r.coref_id > 0
                THEN DictPut(@, r.coref_id, Append(DictGet(@, r.coref_id, <<>>), r.member))
                ELSE @]
    ELSE IF r.exc \in EntityCaught THEN st
    ELSE [st EXCEPT !.exc = r.exc]

\* EntityApply recording the cluster in cluster_to_char_id as soon as the
\* cluster id and token indices are parsed, before the token lookups
EntityApplyEarlyLookup(st, r) ==
    IF st.exc # NoExc THEN st
    ELSE IF r.exc = NoExc
    THEN [st EXCEPT
            !.cluster_to_char_id =
                IF r.coref_id >= 0 THEN DictPut(@, r.coref_id, CharId(r.coref_id)) ELSE @,
            !.mentions = Append(@, r.mention),
            !.cluster_mentions =
                IF r.coref_id >= 0
                THEN DictPut(@, r.coref_id, Append(DictGet(@, r.coref_id, <<>>), r.member))
                ELSE @]
    ELSE IF r.exc \in EntityCaught
    THEN [st EXCEPT
            !.cluster_to_char_id =
                IF r.exc = IndexError /\ r.coref_id >= 0
                THEN DictPut(@, r.coref_id, CharId(r.coref_id)) ELSE @]
    ELSE [st EXCEPT !.exc = r.exc]

\* the loop state [exc, mentions, cluster_to_char_id, cluster_mentions]
\* after a try block that ended as r
EntityApply(st, r) ==
    IF st.exc # NoExc THEN st
    ELSE IF r.exc = NoExc
    THEN [st EXCEPT
            !.cluster_to_char_id =
                IF r.coref_id >= 0 THEN DictPut(@, r.coref_id, CharId(r.coref_id)) ELSE @,
            !.mentions = Append(@, r.mention),
            !.cluster_mentions =
                IF r.coref_id >= 0
                THEN DictPut(@, r.coref_id, Append(DictGet(@, r.coref_id, <<>>), r.member))
                ELSE @]
    ELSE IF r.exc \in EntityCaught THEN st
    ELSE [st EXCEPT !.exc = r.exc]

\* one iteration of the row loop; e is [i, row] of enumerate(rows)
EntityRowStep(st, e, tokens) == EntityApply(st, EntityOfRow(e.i, e.row, tokens))

RECURSIVE EntityLoop(_, _, _)
EntityLoop(st, es, tokens) ==
    IF Len(es) = 0 THEN st
    ELSE EntityLoop(EntityRowStep(st, es[1], tokens), Tail(es), tokens)

\* enumerate(rows)
Enumerate(rows) == [j \in 1..Len(rows) |-> [i |-> j - 1, row |-> rows[j]]]

EntityInit ==
    [exc |-> NoExc, mentions |-> <<>>, cluster_to_char_id |-> <<>>, cluster_mentions |-> <<>>]

\* alias_counts after the scan of a cluster: text -> number of members with it
RECURSIVE AliasCounts(_, _)
AliasCounts(counts, cluster_data) ==
    IF Len(cluster_data) = 0 THEN counts
    ELSE AliasCounts(DictPut(counts, cluster_data[1].text,
                             DictGet(counts, cluster_data[1].text, 0) + 1),
                     Tail(cluster_data))

\* ScanCanonical keeping the first truthy "canonical" instead of the last
RECURSIVE ScanCanonicalFirst(_, _)
ScanCanonicalFirst(name, cluster_data) ==
    IF Len(cluster_data) = 0 THEN name
    ELSE ScanCanonicalFirst(IF Truthy(cluster_data[1].canonical) /\ ~Truthy(name)
                            THEN cluster_data[1].canonical ELSE name,
                            Tail(cluster_data))

\* canonical_name after the scan of a cluster: the last truthy "canonical"
RECURSIVE ScanCanonical(_, _)
ScanCanonical(name, cluster_data) ==
    IF Len(cluster_data) = 0 THEN name
    ELSE ScanCanonical(IF Truthy(cluster_data[1].canonical)
                       THEN cluster_data[1].canonical ELSE name,
                       Tail(cluster_data))

\* max(items, key=lambda x: x[1]): the first item with the greatest count
RECURSIVE MaxByCount(_, _)
MaxByCount(best, items) ==
    IF Len(items) = 0 THEN best
    ELSE MaxByCount(IF items[1].v > best.v THEN items[1] ELSE best, Tail(items))

\* sorted(items, key=lambda x: -x[1]): stable, descending count
RECURSIVE InsertByCount(_, _)
InsertByCount(sorted, item) ==
    IF Len(sorted) = 0 THEN <<item>>
    ELSE IF sorted[Len(sorted)].v >= item.v THEN Append(sorted, item)
    ELSE Append(InsertByCount(SubSeq(sorted, 1, Len(sorted) - 1), item), sorted[Len(sorted)])

\* SortedByCount leaving the items in insertion order
Unsorted(sorted, items) == sorted \o items

RECURSIVE SortedByCount(_, _)
SortedByCount(sorted, items) ==
    IF Len(items) = 0 THEN sorted
    ELSE SortedByCount(InsertByCount(sorted, items[1]), Tail(items))

\* canonical_name: the scanned name, or the most frequent text when it is empty
NameOrMostFrequent(scanned, alias_counts) ==
    IF ~Truthy(scanned)
    THEN MaxByCount(alias_counts[1], Tail(alias_counts)).k
    ELSE scanned

CanonicalName(cluster_data) ==
    NameOrMostFrequent(ScanCanonical(<<>>, cluster_data), AliasCounts(<<>>, cluster_data))

\* the sorted items other than the canonical name, as CharacterAlias records
AliasesAmong(sorted, canonical_name) ==
    [j \in 1..Len(SelectSeq(sorted, LAMBDA a : a.k # canonical_name)) |->
        [text |-> SelectSeq(sorted, LAMBDA a : a.k # canonical_name)[j].k,
         count |-> SelectSeq(sorted, LAMBDA a : a.k # canonical_name)[j].v]]

Aliases(cluster_data, canonical_name) ==
    AliasesAmong(SortedByCount(<<>>, AliasCounts(<<>>, cluster_data)), canonical_name)

\* CharacterNamed counting only the members whose text is not canonical_name
CharacterNamedAliasesOnly(cluster_id, cluster_data, canonical_name) ==
    [id |-> CharId(cluster_id),
     canonical_name |-> canonical_name,
     aliases |-> Aliases(cluster_data, canonical_name),
     mention_count |-> Len(SelectSeq(cluster_data, LAMBDA m : m.text # canonical_name)),
     gender |-> None,
     agent_score |-> 0]

CharacterNamed(cluster_id, cluster_data, canonical_name) ==
    [id |-> CharId(cluster_id),
     canonical_name |-> canonical_name,
     aliases |-> Aliases(cluster_data, canonical_name),
     mention_count |-> Len(cluster_data),
     gender |-> None,
     agent_score |-> 0]

\* the Character built from one item of cluster_mentions
CharacterOf(cluster_id, cluster_data) ==
    CharacterNamed(cluster_id, cluster_data, CanonicalName(cluster_data))

\* the return value for a final loop state:
\* [exc, characters, mentions, cluster_to_char_id]
EntityResult(st) ==
    [exc |-> st.exc,
     characters |-> [j \in 1..Len(st.cluster_mentions) |->
                        CharacterOf(st.cluster_mentions[j].k, st.cluster_mentions[j].v)],
     mentions |-> st.mentions,
     cluster_to_char_id |-> st.cluster_to_char_id]

\* the return value for the enumerated rows es
BuildFrom(es, tokens) == EntityResult(EntityLoop(EntityInit, es, tokens))

\* the build on the result [exc, rows] of parse_tsv_file, whose exception
\* is not caught
BuildFromParsed(parsed, tokens) ==
    IF parsed.exc # NoExc
    THEN [exc |-> parsed.exc, characters |-> <<>>, mentions |-> <<>>,
          cluster_to_char_id |-> <<>>]
    ELSE BuildFrom(Enumerate(parsed.rows), tokens)

build_characters_and_mentions(entities_file, tokens) ==
    BuildFromParsed(parse_tsv_file(entities_file), tokens)

(***************************************************************************)
(* build_coref_chains                                                      *)
(***************************************************************************)

ChainId(char_id) == "chain_" \o char_id

\* bool(x) of an Optional[str] id
TruthyId(x) == x # None /\ x # ""

\* ChainsByChar without the test of character_id
RECURSIVE ChainsByCharUnfiltered(_, _)
ChainsByCharUnfiltered(chains, mentions) ==
    IF Len(mentions) = 0 THEN chains
    ELSE ChainsByCharUnfiltered(
            DictPut(chains, mentions[1].character_id,
                    Append(DictGet(chains, mentions[1].character_id, <<>>), mentions[1].id)),
            Tail(mentions))

\* chains_by_char after the scan of the Mention list
RECURSIVE ChainsByChar(_, _)
ChainsByChar(chains, mentions) ==
    IF Len(mentions) = 0 THEN chains
    ELSE ChainsByChar(
            IF TruthyId(mentions[1].character_id)
            THEN DictPut(chains, mentions[1].character_id,
                         Append(DictGet(chains, mentions[1].character_id, <<>>),
                                mentions[1].id))
            ELSE chains,
            Tail(mentions))

\* the chains of the items of chains_by_char
ChainsOf(chains_by_char) ==
    [j \in 1..Len(chains_by_char) |->
        [chain_id |-> ChainId(chains_by_char[j].k),
         character_id |-> chains_by_char[j].k,
         mentions |-> chains_by_char[j].v]]

build_coref_chains(mentions, lookup) == ChainsOf(ChainsByChar(<<>>, mentions))

(***************************************************************************)
(* build_quotes                                                            *)
(***************************************************************************)

QuoteId(i) == "quote_" \o ToString(i)

QuoteCaught == {ValueError, KeyError, IndexError}

\* {c["id"]: c["canonical_name"] for c in characters}
RECURSIVE CharIdToName(_, _)
CharIdToName(names, chars) ==
    IF Len(chars) = 0 THEN names
    ELSE CharIdToName(DictPut(names, chars[1].id, chars[1].canonical_name), Tail(chars))

\* [speaker_id, speaker_name] for the result of cluster_to_char_id.get
SpeakerNamed(speaker_id, chars) ==
    IF TruthyId(speaker_id)
    THEN [speaker_id |-> speaker_id,
          speaker_name |-> DictGet(CharIdToName(<<>>, chars), speaker_id, None)]
    ELSE [speaker_id |-> speaker_id, speaker_name |-> None]

\* SpeakerOfCluster formatting the id of the cluster without the lookup
SpeakerOfClusterUnchecked(cluster_int, lookup, chars) ==
    IF cluster_int.exc = NoExc
    THEN SpeakerNamed(CharId(cluster_int.val), chars)
    ELSE [speaker_id |-> None, speaker_name |-> None]

\* [speaker_id, speaker_name] for the result of int(speaker_cluster)
SpeakerOfCluster(cluster_int, lookup, chars) ==
    IF cluster_int.exc = NoExc
    THEN SpeakerNamed(DictGet(lookup, cluster_int.val, None), chars)
    ELSE [speaker_id |-> None, speaker_name |-> None]

\* [speaker_id, speaker_name] of a speaker field
SpeakerOf(speaker_cluster, lookup, chars) ==
    IF /\ Truthy(speaker_cluster)
       /\ speaker_cluster # <<"_">>
       /\ speaker_cluster # <<"-", "1">>
    THEN SpeakerOfCluster(ParseInt(speaker_cluster), lookup, chars)
    ELSE [speaker_id |-> None, speaker_name |-> None]

\* the text of the tokens of a slice, for " ".join
TextsOf(toks) == [j \in 1..Len(toks) |-> toks[j].text]

\* QuoteOfParsed joining tokens[start_tok:end_tok], without the token at end_tok
QuoteOfParsedExclusive(i, row, tokens, start_tok, end_tok, speaker) ==
    [exc |-> IF FirstExc(<<start_tok, end_tok>>) # NoExc
             THEN FirstExc(<<start_tok, end_tok>>)
             ELSE FirstExc(<<TokenField(tokens, start_tok.val, "start_char"),
                             TokenField(tokens, end_tok.val, "end_char")>>),
     val |-> [id |-> QuoteId(i),
              text |-> IF /\ ~Truthy(Get(row, <<"q", "u", "o", "t", "e">>, <<>>))
                          /\ start_tok.val < Len(tokens)
                          /\ end_tok.val < Len(tokens)
                       THEN Join(<<" ">>,
                                 TextsOf(PySlice(tokens, start_tok.val, end_tok.val)))
                       ELSE Get(row, <<"q", "u", "o", "t", "e">>, <<>>),
              start_token |-> start_tok.val,
              end_token |-> end_tok.val,
              start_char |-> TokenField(tokens, start_tok.val, "start_char").val,
              end_char |-> TokenField(tokens, end_tok.val, "end_char").val,
              speaker_id |-> speaker.speaker_id,
              speaker_name |-> speaker.speaker_name,
              addressee_id |-> None,
              quote_type |-> Get(row, <<"t", "y", "p", "e">>, <<"e", "x", "p", "l", "i", "c", "i", "t">>)]]

\* the Quote of quote row i, whose token indices were given to int() and
\* whose speaker was resolved, or the first exception raised
QuoteOfParsed(i, row, tokens, start_tok, end_tok, speaker) ==
    [exc |-> IF FirstExc(<<start_tok, end_tok>>) # NoExc
             THEN FirstExc(<<start_tok, end_tok>>)
             ELSE FirstExc(<<TokenField(tokens, start_tok.val, "start_char"),
                             TokenField(tokens, end_tok.val, "end_char")>>),
     val |-> [id |-> QuoteId(i),
              text |-> IF /\ ~Truthy(Get(row, <<"q", "u", "o", "t", "e">>, <<>>))
                          /\ start_tok.val < Len(tokens)
                          /\ end_tok.val < Len(tokens)
                       THEN Join(<<" ">>,
                                 TextsOf(PySlice(tokens, start_tok.val, end_tok.val + 1)))
                       ELSE Get(row, <<"q", "u", "o", "t", "e">>, <<>>),
              start_token |-> start_tok.val,
              end_token |-> end_tok.val,
              start_char |-> TokenField(tokens, start_tok.val, "start_char").val,
              end_char |-> TokenField(tokens, end_tok.val, "end_char").val,
              speaker_id |-> speaker.speaker_id,
              speaker_name |-> speaker.speaker_name,
              addressee_id |-> None,
              quote_type |-> Get(row, <<"t", "y", "p", "e">>, <<"e", "x", "p", "l", "i", "c", "i", "t">>)]]

\* the body of the try block for quote row i: the Quote to append, or the exception
QuoteOfRow(i, row, tokens, lookup, chars) ==
    QuoteOfParsed(i, row, tokens,
                  ParseInt(Get(row, <<"q", "u", "o", "t", "e", "_", "s", "t", "a", "r", "t">>, Get(row, <<"s", "t", "a", "r", "t">>, <<"0">>))),
                  ParseInt(Get(row, <<"q", "u", "o", "t", "e", "_", "e", "n", "d">>, Get(row, <<"e", "n", "d">>, <<"0">>))),
                  SpeakerOf(Get(row, <<"c", "h", "a", "r", "_", "i", "d">>, Get(row, <<"s", "p", "e", "a", "k", "e", "r">>, <<>>)), lookup, chars))

\* the loop state [exc, quotes] after a try block that ended as r
QuoteApply(st, r) ==
    IF st.exc # NoExc THEN st
    ELSE IF r.exc = NoExc THEN [st EXCEPT !.quotes = Append(@, r.val)]
    ELSE IF r.exc \in QuoteCaught THEN st
    ELSE [st EXCEPT !.exc = r.exc]

\* one iteration of the row loop; e is [i, row] of enumerate(rows)
QuoteRowStep(st, e, tokens, lookup, chars) ==
    QuoteApply(st, QuoteOfRow(e.i, e.row, tokens, lookup, chars))

RECURSIVE QuoteLoop(_, _, _, _, _)
QuoteLoop(st, es, tokens, lookup, chars) ==
    IF Len(es) = 0 THEN st
    ELSE QuoteLoop(QuoteRowStep(st, es[1], tokens, lookup, chars), Tail(es),
                   tokens, lookup, chars)

\* the row loop on the result [exc, rows] of parse_tsv_file, whose
\* exception is not caught
QuotesOfParsed(parsed, tokens, lookup, chars) ==
    IF parsed.exc # NoExc THEN [exc |-> parsed.exc, quotes |-> <<>>]
    ELSE QuoteLoop([exc |-> NoExc, quotes |-> <<>>], Enumerate(parsed.rows),
                   tokens, lookup, chars)

\* [exc, quotes]
build_quotes(quotes_file, tokens, lookup, chars) ==
    QuotesOfParsed(parse_tsv_file(quotes_file), tokens, lookup, chars)

(***************************************************************************)
(* build_contract                                                          *)
(***************************************************************************)

\* output_dir: the entries [name, node] of the directory, in the order the
\*             operating system lists them; node is a path record
\* original_text: the argument original_text, a str
\* pc: the statement of build_contract that runs next
\* exc: the exception that left build_contract, if any
\* prefix, tokens .. quotes: the locals of build_contract
\* contract: the returned document
VARIABLES output_dir, original_text, pc, exc, prefix, tokens, characters, mentions,
          cluster_to_char_id, coref_chains, quotes, contract

vars == <<output_dir, original_text, pc, exc, prefix, tokens, characters, mentions,
          cluster_to_char_id, coref_chains, quotes, contract>>

NoFile == [kind |-> "absent", utf8 |-> TRUE, text |-> <<>>]

\* output_dir / name
PathOf(dir, name) ==
    IF \E j \in 1..Len(dir) : dir[j].name = name
    THEN dir[CHOOSE j \in 1..Len(dir) : dir[j].name = name].node
    ELSE NoFile

TokensSuffix == <<".", "t", "o", "k", "e", "n", "s">>
EntitiesSuffix == <<".", "e", "n", "t", "i", "t", "i", "e", "s">>
QuotesSuffix == <<".", "q", "u", "o", "t", "e", "s">>

EndsWith(name, suffix) ==
    /\ Len(name) >= Len(suffix)
    /\ SubSeq(name, Len(name) - Len(suffix) + 1, Len(name)) = suffix

\* the names of output_dir.glob("*.tokens"), in listing order
Glob(dir) ==
    [j \in 1..Len(SelectSeq(dir, LAMBDA e : EndsWith(e.name, TokensSuffix))) |->
        SelectSeq(dir, LAMBDA e : EndsWith(e.name, TokensSuffix))[j].name]

\* the position of the last "." of a name, 0 if it has none
LastDot(name) ==
    IF \E i \in 1..Len(name) : name[i] = "."
    THEN CHOOSE i \in 1..Len(name) :
            name[i] = "." /\ \A k \in (i + 1)..Len(name) : name[k] # "."
    ELSE 0

\* Path(name).stem: the name up to its last ".", unless that is the first
\* or the last character
Stem(name) ==
    IF LastDot(name) > 1 /\ LastDot(name) < Len(name)
    THEN SubSeq(name, 1, LastDot(name) - 1)
    ELSE name

RECURSIVE MaxSentence(_, _)
MaxSentence(best, toks) ==
    IF Len(toks) = 0 THEN best
    ELSE MaxSentence(IF toks[1].sentence_idx > best THEN toks[1].sentence_idx ELSE best,
                     Tail(toks))

\* the counts of the metadata (text_hash, the first 16 hexadecimal digits
\* of the SHA-256 of the encoded text, is not computed)
Metadata ==
    [text_length |-> Len(original_text),
     token_count |-> Len(tokens),
     sentence_count |-> IF Len(tokens) > 0
                        THEN MaxSentence(tokens[1].sentence_idx, Tail(tokens)) + 1
                        ELSE 0,
     character_count |-> Len(characters),
     mention_count |-> Len(mentions),
     quote_count |-> Len(quotes)]

\* the call build_contract(output_dir, document_id, original_text, ...)
\* for a pair <<output_dir, original_text>> of inputs
InitWith(inputs) ==
    /\ \E input \in inputs : output_dir = input[1] /\ original_text = input[2]
    /\ pc = "glob"
    /\ exc = NoExc
    /\ prefix = None
    /\ tokens = <<>>
    /\ characters = <<>>
    /\ mentions = <<>>
    /\ cluster_to_char_id = <<>>
    /\ coref_chains = <<>>
    /\ quotes = <<>>
    /\ contract = None

\* tokens_files = list(output_dir.glob("*.tokens")); raise ValueError if there is none
\* prefix = tokens_files[0].stem
FindTokensFile ==
    /\ pc = "glob"
    /\ IF Glob(output_dir) # <<>>
       THEN pc' = "tokens" /\ exc' = exc /\ prefix' = Stem(Glob(output_dir)[1])
       ELSE pc' = "raised" /\ exc' = ValueError /\ prefix' = prefix
    /\ UNCHANGED <<output_dir, original_text, tokens, characters, mentions, cluster_to_char_id,
                   coref_chains, quotes, contract>>

\* tokens = build_token_index(tokens_file, original_text)
BuildTokenIndex ==
    /\ pc = "tokens"
    /\ \E r \in {build_token_index(PathOf(output_dir, prefix \o TokensSuffix))} :
           IF r.exc = NoExc
           THEN pc' = "entities" /\ exc' = exc /\ tokens' = r.tokens
           ELSE pc' = "raised" /\ exc' = r.exc /\ tokens' = tokens
    /\ UNCHANGED <<output_dir, original_text, prefix, characters, mentions, cluster_to_char_id,
                   coref_chains, quotes, contract>>

\* characters, mentions, cluster_to_char_id = build_characters_and_mentions(...)
BuildCharactersAndMentions ==
    /\ pc = "entities"
    /\ \E r \in {build_characters_and_mentions(PathOf(output_dir, prefix \o EntitiesSuffix),
                                                tokens)} :
           IF r.exc = NoExc
           THEN /\ pc' = "chains" /\ exc' = exc
                /\ characters' = r.characters
                /\ mentions' = r.mentions
                /\ cluster_to_char_id' = r.cluster_to_char_id
           ELSE /\ pc' = "raised" /\ exc' = r.exc
                /\ UNCHANGED <<characters, mentions, cluster_to_char_id>>
    /\ UNCHANGED <<output_dir, original_text, prefix, tokens, coref_chains, quotes, contract>>

\* coref_chains = build_coref_chains(mentions, cluster_to_char_id)
BuildCorefChains ==
    /\ pc = "chains"
    /\ coref_chains' = build_coref_chains(mentions, cluster_to_char_id)
    /\ pc' = "quotes"
    /\ UNCHANGED <<output_dir, original_text, prefix, exc, tokens, characters, mentions, cluster_to_char_id,
                   quotes, contract>>

\* quotes = build_quotes(quotes_file, tokens, cluster_to_char_id, characters)
BuildQuotes ==
    /\ pc = "quotes"
    /\ \E r \in {build_quotes(PathOf(output_dir, prefix \o QuotesSuffix), tokens,
                               cluster_to_char_id, characters)} :
           IF r.exc = NoExc
           THEN pc' = "assemble" /\ exc' = exc /\ quotes' = r.quotes
           ELSE pc' = "raised" /\ exc' = r.exc /\ quotes' = quotes
    /\ UNCHANGED <<output_dir, original_text, prefix, tokens, characters, mentions, cluster_to_char_id,
                   coref_chains, contract>>

\* text_hash = hashlib.sha256(original_text.encode("utf-8")).hexdigest()[:16]
\* return {...}
Assemble ==
    /\ pc = "assemble"
    /\ IF Encodes(original_text)
       THEN /\ contract' = [metadata |-> Metadata,
                            characters |-> characters,
                            mentions |-> mentions,
                            coref_chains |-> coref_chains,
                            quotes |-> quotes,
                            tokens |-> tokens]
            /\ pc' = "done"
            /\ exc' = exc
       ELSE /\ contract' = contract
            /\ pc' = "raised"
            /\ exc' = UnicodeEncodeError
    /\ UNCHANGED <<output_dir, original_text, prefix, tokens, characters, mentions, cluster_to_char_id,
                   coref_chains, quotes>>

Next ==
    \/ FindTokensFile
    \/ BuildTokenIndex
    \/ BuildCharactersAndMentions
    \/ BuildCorefChains
    \/ BuildQuotes
    \/ Assemble

(***************************************************************************)
(* Inputs: the files the external tool may have left in output_dir         *)
(***************************************************************************)

MaxTokenRows == 3
MaxEntityRows == 2
MaxNameRows == 3
MaxClusterRows == 4
MaxMentionRows == 3
MaxSpeakerRows == 2
MaxTextRows == 2

SeqsUpTo(S, n) == UNION {[1..k -> S] : k \in 0..n}

\* a regular file whose text is a header line and further lines, fields
\* joined by tabs and lines by line feeds
TextOf(headers, lines) ==
    Join(<<"\n">>,
         <<Join(<<"\t">>, headers)>> \o [l \in 1..Len(lines) |-> Join(<<"\t">>, lines[l])])

File(headers, lines) == [kind |-> "file", utf8 |-> TRUE, text |-> TextOf(headers, lines)]

\* .tokens: paragraph_id, sentence_id, token_id_within_sentence, word, lemma,
\* byte_onset, byte_offset, POS_tag
TokenHeaders ==
    <<<<"p", "a", "r", "a", "g", "r", "a", "p", "h", "_", "i", "d">>,
      <<"s", "e", "n", "t", "e", "n", "c", "e", "_", "i", "d">>,
      <<"t", "o", "k", "e", "n", "_", "i", "d", "_", "w", "i", "t", "h", "i", "n", "_", "s", "e", "n", "t", "e", "n", "c", "e">>,
      <<"w", "o", "r", "d">>,
      <<"l", "e", "m", "m", "a">>,
      <<"b", "y", "t", "e", "_", "o", "n", "s", "e", "t">>,
      <<"b", "y", "t", "e", "_", "o", "f", "f", "s", "e", "t">>,
      <<"P", "O", "S", "_", "t", "a", "g">>>>

TokenLine(sentence, word, onset, offset) ==
    <<<<"0">>, sentence, <<"0">>, word, word, onset, offset, <<"N", "N">>>>

\* "Tom ran": two tokens, bytes 0-3 and 4-7
TwoTokens ==
    File(TokenHeaders,
         <<TokenLine(<<"0">>, <<"T", "o", "m">>, <<"0">>, <<"3">>),
           TokenLine(<<"1">>, <<"r", "a", "n">>, <<"4">>, <<"7">>)>>)

\* a token file whose only line has no parsable byte_onset
NoTokens == File(TokenHeaders, <<TokenLine(<<"0">>, <<"T", "o", "m">>, <<"x">>, <<"3">>)>>)

\* token lines with negative, reversed, short and unparsable fields, and
\* with a field of Arabic-Indic digits followed by a no-break space
TokenLines ==
    {TokenLine(s, <<"a">>, on, off) :
        s \in {<<"0">>, <<"x">>}, on \in {<<"4">>, <<"-", "2">>},
        off \in {<<"7">>, <<" ", "1">>, <<"U+0667", "U+00A0">>}}
    \cup {<<<<"0">>, <<"0">>, <<"0">>, <<"a">>, <<"a">>, <<"4">>>>}

TokenFiles == {File(TokenHeaders, ls) : ls \in SeqsUpTo(TokenLines, MaxTokenRows)}

\* n zeros
Zeros(n) == [k \in 1..n |-> "0"]

\* n zeros with an underscore before each but the first
SpacedZeros(n) == [k \in 1..(2 * n - 1) |-> IF k % 2 = 1 THEN "0" ELSE "_"]

\* token files of a line between two others, its byte_onset a literal of
\* IntMaxStrDigits digits or of one more
LongDigitFiles ==
    {File(TokenHeaders,
          <<TokenLine(<<"0">>, <<"T", "o", "m">>, <<"0">>, <<"3">>),
            TokenLine(<<"0">>, <<"a">>, on, <<"7">>),
            TokenLine(<<"1">>, <<"r", "a", "n">>, <<"4">>, <<"7">>)>>) :
        on \in {Zeros(IntMaxStrDigits), Zeros(IntMaxStrDigits + 1),
                <<"-">> \o Zeros(IntMaxStrDigits) \o <<" ">>,
                SpacedZeros(IntMaxStrDigits), SpacedZeros(IntMaxStrDigits + 1)}}

\* .entities: COREF, start_token, end_token, text [, name]
EntityHeaders ==
    <<<<"C", "O", "R", "E", "F">>,
      <<"s", "t", "a", "r", "t", "_", "t", "o", "k", "e", "n">>,
      <<"e", "n", "d", "_", "t", "o", "k", "e", "n">>,
      <<"t", "e", "x", "t">>>>

NamedEntityHeaders == Append(EntityHeaders, <<"n", "a", "m", "e">>)

\* entity lines whose cluster id and token indices are in range, out of
\* range, negative or unparsable
OffsetLines ==
    {<<c, st, en, <<"T", "o", "m">>>> :
        c \in {<<"0">>, <<"-", "1">>, <<"x">>},
        st \in {<<"0">>, <<"9">>, <<"-", "1">>, <<"x">>},
        en \in {<<"1">>, <<"9">>, <<"-", "3">>}}

OffsetFiles ==
    {NoFile} \cup {File(EntityHeaders, ls) : ls \in SeqsUpTo(OffsetLines, MaxEntityRows)}

\* entity lines of two clusters with two surface texts and an empty or
\* non-empty name field
NameLines ==
    {<<c, <<"0">>, <<"0">>, t, n>> :
        c \in {<<"0">>, <<"1">>},
        t \in {<<"T", "o", "m">>, <<"A", "l">>},
        n \in {<<>>, <<"B", "o", "b">>, <<"T", "o", "m">>}}

UnnamedLines == {SubSeq(l, 1, 4) : l \in NameLines}

NameFiles ==
    {File(NamedEntityHeaders, ls) : ls \in SeqsUpTo(NameLines, MaxNameRows)}
    \cup {File(EntityHeaders, ls) : ls \in SeqsUpTo(UnnamedLines, MaxNameRows)}

\* entity lines of clusters 0 and 1 (written "1", "01" or with the
\* Arabic-Indic digit one), of no cluster and of an unparsable cluster id
ClusterLines ==
    {<<c, <<"0">>, <<"1">>, <<"T", "o", "m">>>> :
        c \in {<<"0">>, <<"1">>, <<"0", "1">>, <<"U+0661">>, <<"-", "1">>, <<"x">>}}

ClusterFiles == {File(EntityHeaders, ls) : ls \in SeqsUpTo(ClusterLines, MaxClusterRows)}

\* .quotes: quote_start, quote_end, char_id, quote
QuoteHeaders ==
    <<<<"q", "u", "o", "t", "e", "_", "s", "t", "a", "r", "t">>,
      <<"q", "u", "o", "t", "e", "_", "e", "n", "d">>,
      <<"c", "h", "a", "r", "_", "i", "d">>,
      <<"q", "u", "o", "t", "e">>>>

OneEntity == File(EntityHeaders, <<<<<<"0">>, <<"0">>, <<"0">>, <<"T", "o", "m">>>>>>)

\* a quote of cluster 0 without text, an unattributed quote with text, and
\* lines whose token indices raise
SomeQuotes ==
    File(QuoteHeaders,
         <<<<<<"0">>, <<"1">>, <<"0">>, <<>>>>,
           <<<<"0">>, <<"9">>, <<"_">>, <<"H", "i">>>>,
           <<<<"-", "3">>, <<"1">>, <<"0">>, <<>>>>,
           <<<<"x">>, <<"1">>, <<"0">>, <<>>>>>>)

Entry(name, node) == [name |-> name, node |-> node]

\* the listing of the entries that are there
Listing(entries) == SelectSeq(entries, LAMBDA e : e.node.kind # "absent")

DocTokens == <<"d", "o", "c", ".", "t", "o", "k", "e", "n", "s">>
DocEntities == <<"d", "o", "c", ".", "e", "n", "t", "i", "t", "i", "e", "s">>
DocQuotes == <<"d", "o", "c", ".", "q", "u", "o", "t", "e", "s">>

\* the directory of the three files of the prefix "doc"
Dir(t, e, q) ==
    Listing(<<Entry(DocTokens, t), Entry(DocEntities, e), Entry(DocQuotes, q)>>)

\* the token, entity and quote file each present or absent
PresenceDirs ==
    {Dir(t, e, q) : t \in {NoFile, TwoTokens}, e \in {NoFile, OneEntity},
                    q \in {NoFile, SomeQuotes}}

\* "Tom ran", the text of TwoTokens
PlainText == <<"T", "o", "m", " ", "r", "a", "n">>

\* the empty text, a text with a letter of two bytes, and texts that hold a
\* lone surrogate
OddTexts ==
    {<<>>,
     <<"J", "o", "s", "U+00E9">>,
     <<"U+D800">>,
     <<"T", "o", "m", " ", "U+DCFF", " ", "r", "a", "n">>}

\* the directories dirs with the plain text, and the directories of
\* PresenceDirs with the odd texts
Inputs(dirs) == (dirs \X {PlainText}) \cup (PresenceDirs \X OddTexts)

\* a file whose bytes are no UTF-8, a directory, a link without target
NotUtf8 == [kind |-> "file", utf8 |-> FALSE, text |-> <<>>]
Directory == [kind |-> "directory", utf8 |-> TRUE, text |-> <<>>]
DanglingLink == [kind |-> "link", utf8 |-> TRUE, text |-> <<>>]

\* the file f with "\r\n" line ends and a last line end
WithCrLf(f) ==
    [f EXCEPT !.text = Join(<<"\r", "\n">>, Split(@, "\n")) \o <<"\r", "\n">>]

\* the file f between a leading blank and a trailing no-break space and form feed
Padded(f) == [f EXCEPT !.text = <<" ">> \o @ \o <<"U+00A0", "\f">>]

\* directories whose token file is unreadable, undecodable, hidden
\* (".tokens") or one of two, and files with other line ends and padding
OddDirs ==
    {Dir(t, e, q) : t \in {TwoTokens, NotUtf8, Directory, DanglingLink},
                    e \in {OneEntity, NotUtf8, Directory, DanglingLink},
                    q \in {SomeQuotes, NotUtf8, Directory, DanglingLink}}
    \cup {Dir(WithCrLf(TwoTokens), WithCrLf(OneEntity), WithCrLf(SomeQuotes)),
          Dir(Padded(TwoTokens), Padded(OneEntity), Padded(SomeQuotes)),
          <<Entry(TokensSuffix, TwoTokens)>>,
          <<Entry(TokensSuffix, TwoTokens),
            Entry(TokensSuffix \o EntitiesSuffix, OneEntity)>>,
          <<Entry(<<"a", ".", "t", "o", "k", "e", "n", "s">>, NoTokens), Entry(DocTokens, TwoTokens),
            Entry(DocEntities, OneEntity)>>,
          <<Entry(DocTokens, TwoTokens), Entry(<<"a", ".", "t", "o", "k", "e", "n", "s">>, NoTokens),
            Entry(DocEntities, OneEntity)>>}

\* Spec: entity tables whose token indices and cluster ids vary, over a
\* token table of two tokens and one of none, and the odd directories
Init ==
    InitWith(Inputs(PresenceDirs \cup OddDirs
             \cup {Dir(t, e, SomeQuotes) : t \in {TwoTokens, NoTokens}, e \in OffsetFiles}))

\* SpecNames: entity tables whose surface texts and name fields vary
InitNames ==
    InitWith(Inputs(PresenceDirs \cup {Dir(TwoTokens, e, SomeQuotes) : e \in NameFiles}))

\* SpecTokens: token tables whose numeric fields vary, and those with a
\* literal at the digit limit of int()
InitTokens ==
    InitWith(Inputs(PresenceDirs
                    \cup {Dir(t, OneEntity, SomeQuotes) : t \in TokenFiles \cup LongDigitFiles}))

\* SpecClusters: entity tables whose cluster ids vary
InitClusters ==
    InitWith(Inputs(PresenceDirs \cup {Dir(TwoTokens, e, SomeQuotes) : e \in ClusterFiles}))

\* entity lines of clusters 0 and 1, of no cluster and of an unparsable
\* cluster id, with two surface texts
MentionLines ==
    {<<c, <<"0">>, <<"1">>, t>> :
        c \in {<<"0">>, <<"1">>, <<"-", "1">>, <<"x">>},
        t \in {<<"T", "o", "m">>, <<"A", "l">>}}

MentionFiles == {File(EntityHeaders, ls) : ls \in SeqsUpTo(MentionLines, MaxMentionRows)}

\* SpecMentions: entity tables whose cluster ids and surface texts vary
InitMentions ==
    InitWith(Inputs(PresenceDirs \cup {Dir(TwoTokens, e, SomeQuotes) : e \in MentionFiles}))

\* cluster 0 ("Tom", named "Bob") and cluster 1 (empty surface text and name)
TwoCharacters ==
    File(NamedEntityHeaders,
         <<<<<<"0">>, <<"0">>, <<"0">>, <<"T", "o", "m">>, <<"B", "o", "b">>>>,
           <<<<"1">>, <<"1">>, <<"1">>, <<>>, <<>>>>>>)

\* quote lines without text whose speaker field is a cluster id (0, 1, 7),
\* "_", "-1", empty or no number, and whose first token index is in range,
\* negative or unparsable
SpeakerLines ==
    {<<st, <<"1">>, sp, <<>>>> :
        st \in {<<"0">>, <<"-", "3">>, <<"x">>},
        sp \in {<<"0">>, <<"1">>, <<"7">>, <<"_">>, <<"-", "1">>, <<>>, <<"x">>}}

SpeakerFiles == {File(QuoteHeaders, ls) : ls \in SeqsUpTo(SpeakerLines, MaxSpeakerRows)}

\* SpecSpeakers: quote tables whose speaker fields vary, over no, one and
\* two characters
InitSpeakers ==
    InitWith(Inputs(PresenceDirs
             \cup {Dir(TwoTokens, e, q) :
                      e \in {NoFile, OneEntity, TwoCharacters}, q \in SpeakerFiles}))

\* unattributed quote lines with and without text whose token indices are
\* in range, out of range or negative
TextLines ==
    {<<st, en, <<"_">>, q>> :
        st \in {<<"0">>, <<"1">>, <<"9">>, <<"-", "1">>},
        en \in {<<"0">>, <<"1">>, <<"9">>, <<"-", "1">>},
        q \in {<<>>, <<"H", "i">>}}

TextFiles == {File(QuoteHeaders, ls) : ls \in SeqsUpTo(TextLines, MaxTextRows)}

\* SpecTexts: quote tables whose token indices and text vary, over a token
\* table of two tokens and one of none
InitTexts ==
    InitWith(Inputs(PresenceDirs
             \cup {Dir(t, OneEntity, q) : t \in {TwoTokens, NoTokens}, q \in TextFiles}))

Spec == Init /\ [][Next]_vars
SpecMentions == InitMentions /\ [][Next]_vars
SpecSpeakers == InitSpeakers /\ [][Next]_vars
SpecTexts == InitTexts /\ [][Next]_vars
SpecClusters == InitClusters /\ [][Next]_vars
SpecNames == InitNames /\ [][Next]_vars
SpecTokens == InitTokens /\ [][Next]_vars

(***************************************************************************)
(* Properties                                                              *)
(***************************************************************************)

\* build_contract returned a document
Produced == pc = "done"

\* the three files build_contract read
TokensFile == PathOf(output_dir, prefix \o TokensSuffix)
EntitiesFile == PathOf(output_dir, prefix \o EntitiesSuffix)
QuotesFile == PathOf(output_dir, prefix \o QuotesSuffix)

TokenRows == parse_tsv_file(TokensFile).rows
EntityRows == parse_tsv_file(EntitiesFile).rows

\* the Mentions of one Character, in Mention-list order
ClusterOf(ms, id) == SelectSeq(ms, LAMBDA m : m.character_id = id)

\* the entity row a Mention was made from (mention ids carry the row index)
RowOfMention(m) ==
    EntityRows[(CHOOSE i \in 0..(Len(EntityRows) - 1) : MentionId(i) = m.id) + 1]

\* the value of the row's "name" field, "" when the table has no such column
SuppliedName(m) == Get(RowOfMention(m), <<"n", "a", "m", "e">>, <<>>)

TextsIn(ms) == {ms[j].text : j \in 1..Len(ms)}
CountOf(ms, t) == Cardinality({j \in 1..Len(ms) : ms[j].text = t})
FirstPos(ms, t) == CHOOSE j \in 1..Len(ms) : ms[j].text = t /\ \A j2 \in 1..(j - 1) : ms[j2].text # t

\* the most frequent surface text, ties going to the one met first
MostFrequent(ms) ==
    CHOOSE t \in TextsIn(ms) :
        \A u \in TextsIn(ms) :
            \/ CountOf(ms, u) < CountOf(ms, t)
            \/ CountOf(ms, u) = CountOf(ms, t) /\ FirstPos(ms, t) <= FirstPos(ms, u)

\* C1: a cluster none of whose kept rows supplies a "name" value (in
\* particular when the table has no "name" column) gets its most frequent
\* surface text as canonical_name, ties going to the text met first.
C1_MostFrequentWithoutName ==
    Produced =>
        \A j \in 1..Len(contract.characters) :
            LET c == contract.characters[j]
                ms == ClusterOf(contract.mentions, c.id)
            IN  (\A k \in 1..Len(ms) : ~Truthy(SuppliedName(ms[k])))
                    => c.canonical_name = MostFrequent(ms)

\* the Mentions of a cluster whose rows supply a non-empty "name"
NamedIn(ms) == SelectSeq(ms, LAMBDA m : Truthy(SuppliedName(m)))

\* C2: a cluster with at least one kept row whose "name" field is non-empty
\* gets the "name" of the last such row as canonical_name.
C2_LastNameWins ==
    Produced =>
        \A j \in 1..Len(contract.characters) :
            LET c == contract.characters[j]
                named == NamedIn(ClusterOf(contract.mentions, c.id))
            IN  Len(named) > 0 => c.canonical_name = SuppliedName(named[Len(named)])

\* C2 witness: a cluster of three rows whose first two supply different
\* names and whose last supplies none; the second name is the canonical one
\* although it is no surface text of the cluster.
C2_Witness ==
    /\ Produced
    /\ \E j \in 1..Len(contract.characters) :
          LET c == contract.characters[j]
              ms == ClusterOf(contract.mentions, c.id)
          IN  /\ Len(ms) = 3
              /\ Truthy(SuppliedName(ms[1]))
              /\ Truthy(SuppliedName(ms[2]))
              /\ SuppliedName(ms[1]) # SuppliedName(ms[2])
              /\ ~Truthy(SuppliedName(ms[3]))
              /\ c.canonical_name = SuppliedName(ms[2])
              /\ c.canonical_name \notin TextsIn(ms)

\* a token index that is no position of the Token sequence
NotAPosition(k) == k < 0 \/ k >= Len(contract.tokens)

\* C3: every entity row whose numeric fields parse yields a Mention, whose
\* start_char (end_char) is 0 when its start (end) token index is no
\* position of the Token sequence.
C3_OutOfRangeGivesZero ==
    Produced =>
        \A j \in 1..Len(EntityRows) :
            LET coref_id == ParseInt(Get(EntityRows[j], <<"C", "O", "R", "E", "F">>, <<"-", "1">>))
                start_tok == ParseInt(Get(EntityRows[j], <<"s", "t", "a", "r", "t", "_", "t", "o", "k", "e", "n">>, <<"0">>))
                end_tok == ParseInt(Get(EntityRows[j], <<"e", "n", "d", "_", "t", "o", "k", "e", "n">>, <<"0">>))
            IN  (coref_id.exc = NoExc /\ start_tok.exc = NoExc /\ end_tok.exc = NoExc)
                    => \E k \in 1..Len(contract.mentions) :
                          /\ contract.mentions[k].id = MentionId(j - 1)
                          /\ NotAPosition(start_tok.val) => contract.mentions[k].start_char = 0
                          /\ NotAPosition(end_tok.val) => contract.mentions[k].end_char = 0

\* C4: every Mention with a non-null character_id has exactly one Character
\* of that id in the document.
C4_OneCharacterPerMention ==
    Produced =>
        \A k \in 1..Len(contract.mentions) :
            contract.mentions[k].character_id # None
                => Cardinality({j \in 1..Len(contract.characters) :
                                  contract.characters[j].id = contract.mentions[k].character_id}) = 1

\* C4 witness: two Characters, one of them cluster 0, each with a Mention,
\* beside an unresolved Mention and a dropped row.
C4_Witness ==
    /\ Produced
    /\ Len(contract.characters) = 2
    /\ \E k \in 1..Len(contract.mentions) : contract.mentions[k].character_id = CharId(0)
    /\ \E k \in 1..Len(contract.mentions) : contract.mentions[k].character_id = CharId(1)
    /\ \E k \in 1..Len(contract.mentions) : contract.mentions[k].character_id = None
    /\ Len(contract.mentions) < Len(EntityRows)

\* the ids of a sequence of Mentions
IdsOf(ms) == [j \in 1..Len(ms) |-> ms[j].id]

\* C5: there is exactly one CorefChain per non-null character_id of the
\* Mention list, named "chain_" + character_id; its mentions are the ids of
\* the Mentions of that character_id in Mention-list order, so a Mention
\* with null character_id is in no chain.
C5_ChainsRegroupMentions ==
    Produced =>
        /\ \A k \in 1..Len(contract.mentions) :
              contract.mentions[k].character_id # None
                => Cardinality({j \in 1..Len(contract.coref_chains) :
                                  contract.coref_chains[j].character_id
                                      = contract.mentions[k].character_id}) = 1
        /\ \A j \in 1..Len(contract.coref_chains) :
              LET ch == contract.coref_chains[j]
              IN  /\ ch.character_id # None
                  /\ ch.chain_id = "chain_" \o ch.character_id
                  /\ Len(ch.mentions) > 0
                  /\ ch.mentions = IdsOf(ClusterOf(contract.mentions, ch.character_id))

\* C5 witness: two chains whose Mentions interleave in the Mention list,
\* beside a Mention with null character_id.
C5_Witness ==
    /\ Produced
    /\ Len(contract.coref_chains) = 2
    /\ Len(contract.mentions) = 4
    /\ contract.mentions[1].character_id = contract.mentions[3].character_id
    /\ contract.mentions[1].character_id # None
    /\ contract.mentions[2].character_id # None
    /\ contract.mentions[2].character_id # contract.mentions[1].character_id
    /\ contract.mentions[4].character_id = None

\* C6: the aliases of a Character are the distinct surface texts of its
\* cluster other than canonical_name, once each, with the number of the
\* cluster's Mentions of that text, by descending count and, among equal
\* counts, in the order the texts were first met.
C6_AliasesCountedAndOrdered ==
    Produced =>
        \A j \in 1..Len(contract.characters) :
            LET c == contract.characters[j]
                ms == ClusterOf(contract.mentions, c.id)
                al == c.aliases
            IN  /\ {al[a].text : a \in 1..Len(al)} = TextsIn(ms) \ {c.canonical_name}
                /\ \A a, b \in 1..Len(al) : a # b => al[a].text # al[b].text
                /\ \A a \in 1..Len(al) : al[a].count = CountOf(ms, al[a].text)
                /\ \A a, b \in 1..Len(al) :
                      a < b => \/ al[a].count > al[b].count
                               \/ /\ al[a].count = al[b].count
                                  /\ FirstPos(ms, al[a].text) < FirstPos(ms, al[b].text)

\* C6 witness: a Character named by the "name" field whose two aliases are
\* listed against the order they were met in, the later one being more frequent.
C6_Witness ==
    /\ Produced
    /\ \E j \in 1..Len(contract.characters) :
          LET c == contract.characters[j]
              ms == ClusterOf(contract.mentions, c.id)
          IN  /\ Len(c.aliases) = 2
              /\ c.aliases[1].count = 2
              /\ c.aliases[2].count = 1
              /\ FirstPos(ms, c.aliases[2].text) < FirstPos(ms, c.aliases[1].text)

\* the directory has a name that ends in ".tokens"
TokenTablePresent == \E j \in 1..Len(output_dir) : EndsWith(output_dir[j].name, TokensSuffix)

\* C7: build_contract raises exactly when there is no token file; with a
\* token file no statement raises, whatever the tables hold, and an absent
\* entity or quote file gives empty collections in the returned document.
C7_OnlyMissingTokensAborts ==
    /\ pc = "raised" => ~TokenTablePresent
    /\ (~TokenTablePresent /\ pc # "glob") => pc = "raised"
    /\ TokenTablePresent => (exc = NoExc /\ pc # "raised")
    /\ (Produced /\ ~Exists(EntitiesFile))
          => /\ contract.characters = <<>>
             /\ contract.mentions = <<>>
             /\ contract.coref_chains = <<>>
    /\ (Produced /\ ~Exists(QuotesFile)) => contract.quotes = <<>>

\* the enumerated entity rows that made a Mention
KeptRows ==
    SelectSeq(Enumerate(EntityRows),
              LAMBDA e : \E k \in 1..Len(contract.mentions) :
                            contract.mentions[k].id = MentionId(e.i))

\* C8: the dropped entity rows leave no trace: the characters, the Mentions
\* and the lookup are those built from the kept rows alone (under their
\* row indices), and every lookup entry and every Character belongs to some
\* Mention, mention_count being the number of its Mentions.
C8_DroppedRowsLeaveNoTrace ==
    Produced =>
        /\ LET r == BuildFrom(KeptRows, contract.tokens)
           IN  /\ r.characters = contract.characters
               /\ r.mentions = contract.mentions
               /\ r.cluster_to_char_id = cluster_to_char_id
        /\ \A j \in 1..Len(cluster_to_char_id) :
              \E k \in 1..Len(contract.mentions) :
                  contract.mentions[k].character_id = cluster_to_char_id[j].v
        /\ \A j \in 1..Len(contract.characters) :
              /\ contract.characters[j].mention_count > 0
              /\ contract.characters[j].mention_count
                    = Len(ClusterOf(contract.mentions, contract.characters[j].id))

\* C8 witness: a first row of cluster 0 dropped on an IndexError, followed
\* by a kept row without cluster, which keeps the id mention_1.
C8_Witness ==
    /\ Produced
    /\ Len(EntityRows) = 2
    /\ ParseInt(EntityRows[1][<<"C", "O", "R", "E", "F">>]) = [exc |-> NoExc, val |-> 0]
    /\ EntityOfRow(0, EntityRows[1], contract.tokens).exc = IndexError
    /\ Len(contract.mentions) = 1
    /\ contract.mentions[1].id = MentionId(1)
    /\ contract.characters = <<>>

\* the token rows whose four numeric fields parse
NumericFieldsParse(row) ==
    /\ ParseInt(Get(row, <<"b", "y", "t", "e", "_", "o", "n", "s", "e", "t">>, <<"0">>)).exc = NoExc
    /\ ParseInt(Get(row, <<"b", "y", "t", "e", "_", "o", "f", "f", "s", "e", "t">>, <<"0">>)).exc = NoExc
    /\ ParseInt(Get(row, <<"s", "e", "n", "t", "e", "n", "c", "e", "_", "i", "d">>, <<"0">>)).exc = NoExc
    /\ ParseInt(Get(row, <<"p", "a", "r", "a", "g", "r", "a", "p", "h", "_", "i", "d">>, <<"0">>)).exc = NoExc

ValidTokenRows == SelectSeq(TokenRows, NumericFieldsParse)

\* C9: the Token list has one Token per token row whose numeric fields
\* parse, in file order, and the idx of each is its 0-based position.
C9_TokenIdxIsPosition ==
    Produced =>
        /\ Len(contract.tokens) = Len(ValidTokenRows)
        /\ \A j \in 1..Len(contract.tokens) :
              /\ contract.tokens[j].idx = j - 1
              /\ contract.tokens[j].text = ValidTokenRows[j][<<"w", "o", "r", "d">>]
              /\ contract.tokens[j].start_char = ParseInt(ValidTokenRows[j][<<"b", "y", "t", "e", "_", "o", "n", "s", "e", "t">>]).val
              /\ contract.tokens[j].end_char = ParseInt(ValidTokenRows[j][<<"b", "y", "t", "e", "_", "o", "f", "f", "s", "e", "t">>]).val

\* C9 witness: three token rows of which the middle one is dropped; the
\* third row is the Token of idx 1.
C9_Witness ==
    /\ Produced
    /\ Len(TokenRows) = 3
    /\ NumericFieldsParse(TokenRows[1])
    /\ ~NumericFieldsParse(TokenRows[2])
    /\ NumericFieldsParse(TokenRows[3])
    /\ Len(contract.tokens) = 2
    /\ contract.tokens[2].idx = 1

\* C10: every Token of a returned document has start_char >= 0,
\* end_char >= 0 and end_char >= start_char.
C10_TokenOffsetsOrdered ==
    Produced =>
        \A j \in 1..Len(contract.tokens) :
            /\ contract.tokens[j].start_char >= 0
            /\ contract.tokens[j].end_char >= 0
            /\ contract.tokens[j].end_char >= contract.tokens[j].start_char

QuoteRows == parse_tsv_file(QuotesFile).rows

\* the speaker field of a quote row
SpeakerField(row) == Get(row, <<"c", "h", "a", "r", "_", "i", "d">>, Get(row, <<"s", "p", "e", "a", "k", "e", "r">>, <<>>))

\* a speaker field that names no Character: "_", "-1", empty, no number, or
\* a cluster id without an entry in the lookup
NamesNoCharacter(sp) ==
    \/ sp \in {<<"_">>, <<"-", "1">>, <<>>}
    \/ ParseInt(sp).exc # NoExc
    \/ ~DictHas(cluster_to_char_id, ParseInt(sp).val)

\* the token indices of a quote row parse
QuoteIndicesParse(row) ==
    /\ ParseInt(Get(row, <<"q", "u", "o", "t", "e", "_", "s", "t", "a", "r", "t">>, Get(row, <<"s", "t", "a", "r", "t">>, <<"0">>))).exc = NoExc
    /\ ParseInt(Get(row, <<"q", "u", "o", "t", "e", "_", "e", "n", "d">>, Get(row, <<"e", "n", "d">>, <<"0">>))).exc = NoExc

\* C11: every quote row whose token indices parse and whose speaker field
\* is "_", "-1", empty, no number or a cluster id absent from the lookup is
\* emitted as a Quote with null speaker_id and null speaker_name.
C11_UnresolvedSpeakerKeepsRow ==
    Produced =>
        \A j \in 1..Len(QuoteRows) :
            (QuoteIndicesParse(QuoteRows[j]) /\ NamesNoCharacter(SpeakerField(QuoteRows[j])))
                => \E k \in 1..Len(contract.quotes) :
                      /\ contract.quotes[k].id = QuoteId(j - 1)
                      /\ contract.quotes[k].speaker_id = None
                      /\ contract.quotes[k].speaker_name = None

\* the number of the items of a sequence that satisfy Test
CountWhere(seq, Test(_)) == Cardinality({j \in 1..Len(seq) : Test(seq[j])})

\* the entity row of index i (0-based) made a Mention
RowKept(i) == \E k \in 1..Len(contract.mentions) : contract.mentions[k].id = MentionId(i)

\* the cluster id of an entity row
ClusterIdOf(row) == ParseInt(Get(row, <<"C", "O", "R", "E", "F">>, <<"-", "1">>))

RECURSIVE SumOfCounts(_)
SumOfCounts(chars) ==
    IF Len(chars) = 0 THEN 0 ELSE chars[1].mention_count + SumOfCounts(Tail(chars))

\* C12: mention_count of every Character is the number of kept entity rows
\* of its cluster id, which is the number of Mentions of its character_id,
\* whatever their surface text; a kept row of negative cluster id makes a
\* Mention with null character_id, which no Character counts.
C12_MentionCountIsClusterSize ==
    Produced =>
        /\ \A j \in 1..Len(contract.characters) :
              LET c == contract.characters[j]
              IN  /\ c.mention_count
                        = CountWhere(contract.mentions, LAMBDA m : m.character_id = c.id)
                  /\ c.mention_count
                        = Cardinality({i \in 1..Len(EntityRows) :
                              /\ RowKept(i - 1)
                              /\ ClusterIdOf(EntityRows[i]).val >= 0
                              /\ CharId(ClusterIdOf(EntityRows[i]).val) = c.id})
        /\ \A i \in 1..Len(EntityRows) :
              (RowKept(i - 1) /\ ClusterIdOf(EntityRows[i]).val < 0)
                  => \E k \in 1..Len(contract.mentions) :
                        /\ contract.mentions[k].id = MentionId(i - 1)
                        /\ contract.mentions[k].character_id = None
        /\ SumOfCounts(contract.characters)
              = CountWhere(contract.mentions, LAMBDA m : m.character_id # None)

\* C12 witness: a Character of two Mentions, one whose text is the
\* canonical name and one whose text is not, beside a Mention of a negative
\* cluster id.
C12_Witness ==
    /\ Produced
    /\ Len(contract.mentions) = 3
    /\ \E k \in 1..3 : contract.mentions[k].character_id = None
    /\ \E j \in 1..Len(contract.characters) :
          LET c == contract.characters[j]
              ms == ClusterOf(contract.mentions, c.id)
          IN  /\ c.mention_count = 2
              /\ Len(ms) = 2
              /\ \E k \in 1..2 : ms[k].text = c.canonical_name
              /\ \E k \in 1..2 : ms[k].text # c.canonical_name

\* the quote row a Quote was made from (quote ids carry the row index)
RowOfQuote(q) ==
    QuoteRows[(CHOOSE i \in 0..(Len(QuoteRows) - 1) : QuoteId(i) = q.id) + 1]

\* a token index that is a position of the Token sequence
IsPosition(k) == 0 <= k /\ k < Len(contract.tokens)

\* the texts of the Tokens whose position is in [a, b], in order
TextsBetween(a, b) ==
    LET at == SelectSeq([j \in 1..Len(contract.tokens) |-> j - 1],
                        LAMBDA p : a <= p /\ p <= b)
    IN  [j \in 1..Len(at) |-> contract.tokens[at[j] + 1].text]

\* C13: the text of every Quote is the "quote" field of its row when that
\* is non-empty, and otherwise the texts of the Tokens with position in
\* [start_token, end_token], in order, joined with single spaces.
C13_TextGivenOrJoined ==
    Produced =>
        \A k \in 1..Len(contract.quotes) :
            LET q == contract.quotes[k]
                given == Get(RowOfQuote(q), <<"q", "u", "o", "t", "e">>, <<>>)
            IN  IF Truthy(given)
                THEN q.text = given
                ELSE q.text = Join(<<" ">>, TextsBetween(q.start_token, q.end_token))

\* C13 amended: the text of every Quote is the "quote" field of its row when
\* that is non-empty; otherwise it is the texts of the Tokens with position
\* in [start_token, end_token] joined with single spaces when both indices
\* are positions of the Token sequence, and empty when either index is at
\* or beyond the end of the Token sequence.
C13_TextGivenOrJoinedInRange ==
    Produced =>
        \A k \in 1..Len(contract.quotes) :
            LET q == contract.quotes[k]
                given == Get(RowOfQuote(q), <<"q", "u", "o", "t", "e">>, <<>>)
            IN  /\ Truthy(given) => q.text = given
                /\ (~Truthy(given) /\ IsPosition(q.start_token) /\ IsPosition(q.end_token))
                      => q.text = Join(<<" ">>, TextsBetween(q.start_token, q.end_token))
                /\ (/\ ~Truthy(given)
                    /\ \/ q.start_token >= Len(contract.tokens)
                       \/ q.end_token >= Len(contract.tokens))
                      => q.text = <<>>

\* C13 witness: a Quote without given text over tokens 0..1, whose text is
\* "Tom ran", followed by one whose end index is beyond the Token sequence,
\* whose text is empty.
C13_Witness ==
    /\ Produced
    /\ Len(contract.quotes) = 2
    /\ ~Truthy(Get(RowOfQuote(contract.quotes[1]), <<"q", "u", "o", "t", "e">>, <<>>))
    /\ contract.quotes[1].start_token = 0
    /\ contract.quotes[1].end_token = 1
    /\ contract.quotes[1].text = <<"T", "o", "m", " ", "r", "a", "n">>
    /\ ~Truthy(Get(RowOfQuote(contract.quotes[2]), <<"q", "u", "o", "t", "e">>, <<>>))
    /\ contract.quotes[2].start_token = 0
    /\ contract.quotes[2].end_token = 9
    /\ contract.quotes[2].text = <<>>

\* C14: every Quote with a non-null speaker_id has a Character of that id
\* in the document, whose canonical_name is its speaker_name, and
\* speaker_name is non-null exactly when speaker_id is.
C14_SpeakerIsACharacter ==
    Produced =>
        \A k \in 1..Len(contract.quotes) :
            LET q == contract.quotes[k]
            IN  /\ q.speaker_id # None
                      => \E j \in 1..Len(contract.characters) :
                            /\ contract.characters[j].id = q.speaker_id
                            /\ contract.characters[j].canonical_name = q.speaker_name
                /\ (q.speaker_name # None) <=> (q.speaker_id # None)

\* C14 witness: a Quote of cluster 0, named "Bob" after the "name" field of
\* the Character, followed by a Quote of a cluster id that no entity row
\* carries, which has no speaker.
C14_Witness ==
    /\ Produced
    /\ Len(contract.characters) = 2
    /\ Len(contract.quotes) = 2
    /\ contract.quotes[1].speaker_id = CharId(0)
    /\ contract.quotes[1].speaker_name = <<"B", "o", "b">>
    /\ SpeakerField(RowOfQuote(contract.quotes[2])) = <<"7">>
    /\ contract.quotes[2].speaker_id = None
    /\ contract.quotes[2].speaker_name = None

====
